---- MODULE Spec2Model ----
(***************************************************************************)
(* FeeMap (consensus/enclave/api/src/fee_map.rs): a map of token id ->     *)
(* minimum fee together with a cached digest of that map.                  *)
(*                                                                         *)
(* A BTreeMap<TokenId, u64> is a function whose domain is a finite set of  *)
(* token ids; its iteration order is the ascending order of its keys.      *)
(* The Merlin transcript is the record of what was appended to it, and     *)
(* extract_digest is collision-free: the 32 bytes hold the elements of the *)
(* transcript they were extracted from.  A String is a sequence of         *)
(* characters.  Token ids are u32 and fees u64; the only arithmetic on     *)
(* them is map.len() * 2, which cannot leave usize.                        *)
(***************************************************************************)
EXTENDS Integers, Sequences, FiniteSets

\* ---------------------------------------------------------------- bounds

\* Token ids of the model are 0..MaxTokenId.
MaxTokenId == 1

\* Caller-supplied fees of the model are 0..MaxFee, and Mob::MINIMUM_FEE.
MaxFee == 1

\* try_from_iter is given at most MaxIterLen pairs.
MaxIterLen == 2

\* A base responder id has at most MaxIdLen characters.
MaxIdLen == 2

\* The threads that share a FeeMap for reading are 1..NumReaders.
NumReaders == 2

\* ------------------------------------------------------------- constants

\* constants::MICROMOB_TO_PICOMOB: one microMOB in picoMOB.
MICROMOB_TO_PICOMOB == 1000000

\* TokenId::MOB
MOB == 0

\* <Mob as Token>::ID
Mob_ID == MOB

\* <Mob as Token>::MINIMUM_FEE, a u64 (the product is far below 2^64).
Mob_MINIMUM_FEE == 400 * MICROMOB_TO_PICOMOB

TokenIds == 0 .. MaxTokenId

Fees == (0 .. MaxFee) \cup {Mob_MINIMUM_FEE}

\* Every BTreeMap<TokenId, u64> over the token ids and fees of the model.
Maps == UNION {[D -> Fees] : D \in SUBSET TokenIds}

Pairs == TokenIds \X Fees

\* Every iterator of at most MaxIterLen (TokenId, u64) pairs.
Iters == UNION {[1 .. n -> Pairs] : n \in 0 .. MaxIterLen}

\* The characters of the base responder ids of the model: a hexadecimal
\* digit, the separator responder_id inserts, and the ':' of "1.2.3.4:5".
IdChars == {"a", "-", ":"}

\* Every ResponderId(String) of at most MaxIdLen characters.
ResponderIds == UNION {[1 .. n -> IdChars] : n \in 0 .. MaxIdLen}

Readers == 1 .. NumReaders

\* ------------------------------------------------------------ value types

\* Option<T>
None == [tag |-> "None"]

Some(v) == [tag |-> "Some", val |-> v]

\* Result<T, Error>
Ok(v) == [tag |-> "Ok", val |-> v]

\* ()
Unit == [tag |-> "unit"]

\* Error::InvalidFee(TokenId, u64)
InvalidFee(token_id, fee) == [tag |-> "InvalidFee", token_id |-> token_id, fee |-> fee]

\* Error::MissingFee(TokenId)
MissingFee(token_id) == [tag |-> "MissingFee", token_id |-> token_id]

\* struct FeeMap { map, cached_digest }
FeeMap(map, cached_digest) == [map |-> map, cached_digest |-> cached_digest]

\* No FeeMap has been constructed yet.
NoFeeMap == [tag |-> "NoFeeMap"]

\* ---------------------------------------------------------------- BTreeMap

Min(S) == CHOOSE x \in S : \A y \in S : x <= y

\* BTreeMap::new()
btree_new == [t \in {} |-> 0]

\* BTreeMap::insert that keeps the value of an existing key.
btree_insert_keep_first(m, k, v) ==
    [t \in DOMAIN m \cup {k} |-> IF t \in DOMAIN m THEN m[t] ELSE v]

\* BTreeMap::insert: the value of an existing key is overwritten.
btree_insert(m, k, v) == [t \in DOMAIN m \cup {k} |-> IF t = k THEN v ELSE m[t]]

\* BTreeMap::iter walking the keys from the largest down.
RECURSIVE btree_iter_descending(_)
btree_iter_descending(m) ==
    IF DOMAIN m = {} THEN <<>>
    ELSE LET k == CHOOSE x \in DOMAIN m : \A y \in DOMAIN m : x >= y
         IN  <<<<k, m[k]>>>> \o btree_iter_descending([t \in DOMAIN m \ {k} |-> m[t]])

\* BTreeMap::iter: the entries in ascending key order.
RECURSIVE btree_iter(_)
btree_iter(m) ==
    IF DOMAIN m = {} THEN <<>>
    ELSE LET k == Min(DOMAIN m)
         IN  <<<<k, m[k]>>>> \o btree_iter([t \in DOMAIN m \ {k} |-> m[t]])

\* BTreeMap::from_iter: the pairs are inserted in the order they are supplied.
RECURSIVE btree_from_iter(_)
btree_from_iter(it) ==
    IF it = <<>> THEN btree_new
    ELSE LET n == Len(it)
         IN  btree_insert(btree_from_iter(SubSeq(it, 1, n - 1)), it[n][1], it[n][2])

\* find_zero_fee scanning from the largest key down: the last zero fee is found.
RECURSIVE find_zero_fee_last(_)
find_zero_fee_last(entries) ==
    IF entries = <<>> THEN None
    ELSE LET n == Len(entries)
         IN  IF entries[n][2] = 0 THEN Some(entries[n])
             ELSE find_zero_fee_last(SubSeq(entries, 1, n - 1))

\* Iterator::find(|(_token_id, fee)| **fee == 0) on a sequence of entries.
RECURSIVE find_zero_fee(_)
find_zero_fee(entries) ==
    IF entries = <<>> THEN None
    ELSE IF Head(entries)[2] = 0 THEN Some(Head(entries))
    ELSE find_zero_fee(Tail(entries))

\* ------------------------------------------------------------------ digest

\* append_entries without the fee.append_to_transcript line.
RECURSIVE append_entries_token_only(_)
append_entries_token_only(entries) ==
    IF entries = <<>> THEN <<>>
    ELSE <<<<"prim", "token_id", Head(entries)[1]>>>>
         \o append_entries_token_only(Tail(entries))

\* The body of the for loop of calc_digest_for_map, over the entries in order.
RECURSIVE append_entries(_)
append_entries(entries) ==
    IF entries = <<>> THEN <<>>
    ELSE <<<<"prim", "token_id", Head(entries)[1]>>, <<"prim", "fee", Head(entries)[2]>>>>
         \o append_entries(Tail(entries))

\* calc_digest_for_map with map.len() as the sequence header.
fee_map_transcript_len_header(map) ==
    [ context |-> "fee_map",
      appended |-> <<<<"seq", "fee_map", Cardinality(DOMAIN map)>>>>
                   \o append_entries(btree_iter(map)) ]

\* The transcript calc_digest_for_map builds for a map.
fee_map_transcript(map) ==
    [ context |-> "fee_map",
      appended |-> <<<<"seq", "fee_map", Cardinality(DOMAIN map) * 2>>>>
                   \o append_entries(btree_iter(map)) ]

\* let mut result = [0u8; 32];
DIGEST_LEN == 32

\* The little-endian bytes of v, n of them.
RECURSIVE le_bytes(_, _)
le_bytes(v, n) == IF n = 0 THEN <<>> ELSE <<v % 256>> \o le_bytes(v \div 256, n - 1)

\* The bytes one appended element contributes: a sequence header and a token
\* id of the model fit one byte, a fee of the model fits four.
element_bytes(e) == IF e[2] = "fee" THEN le_bytes(e[3], 4) ELSE le_bytes(e[3], 1)

RECURSIVE elements_bytes(_)
elements_bytes(appended) ==
    IF appended = <<>> THEN <<>>
    ELSE element_bytes(Head(appended)) \o elements_bytes(Tail(appended))

\* transcript.extract_digest(&mut result): DIGEST_LEN bytes.  Merlin is
\* collision-resistant; the model's digest is collision-free on the
\* transcripts of the model: their elements, zero-padded.
extract_digest(transcript) ==
    LET packed == elements_bytes(transcript.appended)
    IN  [i \in 1 .. DIGEST_LEN |-> IF i <= Len(packed) THEN packed[i] ELSE 0]

\* The lowercase hexadecimal digits.
HexDigits == <<"0", "1", "2", "3", "4", "5", "6", "7",
               "8", "9", "a", "b", "c", "d", "e", "f">>

\* hex::encode without the leading zero of a byte below 16.
RECURSIVE hex_encode_unpadded(_)
hex_encode_unpadded(result) ==
    IF result = <<>> THEN <<>>
    ELSE LET b == Head(result)
         IN  (IF b < 16 THEN <<HexDigits[b + 1]>>
              ELSE <<HexDigits[(b \div 16) + 1], HexDigits[(b % 16) + 1]>>)
             \o hex_encode_unpadded(Tail(result))

\* hex::encode(result): two lowercase digits for each byte, a String (a
\* sequence of characters).
hex_encode(result) ==
    [i \in 1 .. 2 * Len(result) |->
        LET b == result[(i + 1) \div 2]
        IN  IF i % 2 = 1 THEN HexDigits[(b \div 16) + 1] ELSE HexDigits[(b % 16) + 1]]

calc_digest_for_map(map) == hex_encode(extract_digest(fee_map_transcript(map)))

\* -------------------------------------------------------------- FeeMap API

\* default_map without the insert.
default_map_empty == btree_new

\* FeeMap::default_map
default_map == btree_insert(btree_new, Mob_ID, Mob_MINIMUM_FEE)

\* impl Default for FeeMap
FeeMap_default ==
    LET map == default_map
        cached_digest == calc_digest_for_map(map)
    IN  FeeMap(map, cached_digest)

\* is_valid_map without the check that all fees are greater than 0.
is_valid_map_no_fee_check(minimum_fees) ==
    IF Mob_ID \notin DOMAIN minimum_fees THEN MissingFee(Mob_ID)
    ELSE Ok(Unit)

\* is_valid_map without the check that MOB has a minimum fee.
is_valid_map_no_mob_check(minimum_fees) ==
    LET found == find_zero_fee(btree_iter(minimum_fees))
    IN  IF found.tag = "Some" THEN InvalidFee(found.val[1], found.val[2])
        ELSE Ok(Unit)

\* FeeMap::is_valid_map
is_valid_map(minimum_fees) ==
    LET found == find_zero_fee(btree_iter(minimum_fees))
    IN  IF found.tag = "Some" THEN InvalidFee(found.val[1], found.val[2])
        ELSE IF Mob_ID \notin DOMAIN minimum_fees THEN MissingFee(Mob_ID)
        ELSE Ok(Unit)

\* try_from without the is_valid_map(&map)? line.
try_from_unvalidated(map) == Ok(FeeMap(map, calc_digest_for_map(map)))

\* impl TryFrom<BTreeMap<TokenId, u64>> for FeeMap
try_from(map) ==
    LET valid == is_valid_map(map)
    IN  IF valid.tag # "Ok" THEN valid
        ELSE Ok(FeeMap(map, calc_digest_for_map(map)))

\* try_from_iter digesting the pairs in the order they were supplied.
try_from_iter_supply_order(it) ==
    LET built == try_from(btree_from_iter(it))
        transcript == [ context |-> "fee_map",
                        appended |-> <<<<"seq", "fee_map", Len(it) * 2>>>>
                                     \o append_entries(it) ]
    IN  IF built.tag # "Ok" THEN built
        ELSE Ok(FeeMap(built.val.map, hex_encode(extract_digest(transcript))))

\* FeeMap::try_from_iter
try_from_iter(it) == try_from(btree_from_iter(it))

\* FeeMap::get_fee_for_token
get_fee_for_token(self, token_id) ==
    IF token_id \in DOMAIN self.map THEN Some(self.map[token_id]) ELSE None

\* FeeMap::iter
iter(self) == btree_iter(self.map)

\* responder_id without the base responder id.
responder_id_without_base(self, id) == <<"-">> \o self.cached_digest

\* responder_id without the digest.
responder_id_without_digest(self, id) == id \o <<"-">>

\* FeeMap::responder_id: format!("{}-{}", responder_id.0, self.cached_digest)
responder_id(self, id) == id \o <<"-">> \o self.cached_digest

\* update_or_default without the cached_digest assignment.
update_or_default_stale_digest(self, minimum_fees) ==
    IF minimum_fees.tag = "Some"
    THEN LET valid == is_valid_map(minimum_fees.val)
         IN  IF valid.tag # "Ok" THEN [self |-> self, ret |-> valid]
             ELSE [self |-> [self EXCEPT !.map = minimum_fees.val], ret |-> Ok(Unit)]
    ELSE [self |-> [self EXCEPT !.map = default_map], ret |-> Ok(Unit)]

\* update_or_default without the is_valid_map(&minimum_fees)? line.
update_or_default_unvalidated(self, minimum_fees) ==
    LET map == IF minimum_fees.tag = "Some" THEN minimum_fees.val ELSE default_map
    IN  [self |-> FeeMap(map, calc_digest_for_map(map)), ret |-> Ok(Unit)]

\* update_or_default assigning self.map before it validates.
update_or_default_assign_first(self, minimum_fees) ==
    IF minimum_fees.tag = "Some"
    THEN LET assigned == [self EXCEPT !.map = minimum_fees.val]
             valid == is_valid_map(assigned.map)
         IN  IF valid.tag # "Ok" THEN [self |-> assigned, ret |-> valid]
             ELSE [ self |-> [assigned EXCEPT
                                !.cached_digest = calc_digest_for_map(assigned.map)],
                    ret |-> Ok(Unit) ]
    ELSE [self |-> FeeMap(default_map, calc_digest_for_map(default_map)), ret |-> Ok(Unit)]

\* update_or_default whose None branch keeps the current map.
update_or_default_none_keeps(self, minimum_fees) ==
    IF minimum_fees.tag = "Some"
    THEN LET valid == is_valid_map(minimum_fees.val)
         IN  IF valid.tag # "Ok" THEN [self |-> self, ret |-> valid]
             ELSE [ self |-> FeeMap(minimum_fees.val, calc_digest_for_map(minimum_fees.val)),
                    ret |-> Ok(Unit) ]
    ELSE [self |-> FeeMap(self.map, calc_digest_for_map(self.map)), ret |-> Ok(Unit)]

\* update_or_default inserting the new fees into the current map.
update_or_default_merge(self, minimum_fees) ==
    IF minimum_fees.tag = "Some"
    THEN LET valid == is_valid_map(minimum_fees.val)
             merged == [t \in DOMAIN self.map \cup DOMAIN minimum_fees.val |->
                          IF t \in DOMAIN minimum_fees.val
                          THEN minimum_fees.val[t] ELSE self.map[t]]
         IN  IF valid.tag # "Ok" THEN [self |-> self, ret |-> valid]
             ELSE [self |-> FeeMap(merged, calc_digest_for_map(merged)), ret |-> Ok(Unit)]
    ELSE [self |-> FeeMap(default_map, calc_digest_for_map(default_map)), ret |-> Ok(Unit)]

\* FeeMap::update_or_default: the FeeMap after the call, and what it returns.
update_or_default(self, minimum_fees) ==
    IF minimum_fees.tag = "Some"
    THEN LET valid == is_valid_map(minimum_fees.val)
         IN  IF valid.tag # "Ok" THEN [self |-> self, ret |-> valid]
             ELSE LET assigned == [self EXCEPT !.map = minimum_fees.val]
                  IN  [ self |-> [assigned EXCEPT
                                    !.cached_digest = calc_digest_for_map(assigned.map)],
                        ret |-> Ok(Unit) ]
    ELSE LET assigned == [self EXCEPT !.map = default_map]
         IN  [ self |-> [assigned EXCEPT
                           !.cached_digest = calc_digest_for_map(assigned.map)],
               ret |-> Ok(Unit) ]

\* ------------------------------------------------------------------- state

VARIABLES
    fee_map,    \* the FeeMap the program holds, NoFeeMap before it is constructed
    op,         \* the last operation called
    arg,        \* its argument
    ret,        \* what it returned
    lock,       \* who borrows a shared FeeMap: one writer, or a set of readers
    writer,     \* the thread inside update_or_default(&mut self): its position
    reader      \* the threads that clone the FeeMap through &self: what they read

vars == <<fee_map, op, arg, ret, lock, writer, reader>>

\* The state of the threads while the FeeMap is not shared.
sharing == <<lock, writer, reader>>

Unlocked == [writer |-> FALSE, readers |-> {}]

WriterIdle == [pc |-> "idle"]

ReaderIdle == [pc |-> "idle"]

NotShared ==
    /\ lock = Unlocked
    /\ writer = WriterIdle
    /\ reader = [r \in Readers |-> ReaderIdle]

Init ==
    /\ fee_map = NoFeeMap
    /\ op = "none"
    /\ arg = None
    /\ ret = Unit
    /\ NotShared

\* let fee_map = FeeMap::default();
Default ==
    /\ fee_map = NoFeeMap
    /\ op' = "default"
    /\ arg' = None
    /\ ret' = FeeMap_default
    /\ fee_map' = ret'
    /\ UNCHANGED sharing

\* let fee_map = FeeMap::try_from(m)?;
TryFrom ==
    \E m \in Maps :
        /\ fee_map = NoFeeMap
        /\ op' = "try_from"
        /\ arg' = m
        /\ ret' = try_from(m)
        /\ fee_map' = IF ret'.tag = "Ok" THEN ret'.val ELSE fee_map
        /\ UNCHANGED sharing

\* let fee_map = FeeMap::try_from_iter(it)?;
TryFromIter ==
    \E it \in Iters :
        /\ fee_map = NoFeeMap
        /\ op' = "try_from_iter"
        /\ arg' = it
        /\ ret' = try_from_iter(it)
        /\ fee_map' = IF ret'.tag = "Ok" THEN ret'.val ELSE fee_map
        /\ UNCHANGED sharing

\* FeeMap::is_valid_map(&m): an associated function, it has no self.
IsValidMap ==
    \E m \in Maps :
        /\ op' = "is_valid_map"
        /\ arg' = m
        /\ ret' = is_valid_map(m)
        /\ UNCHANGED <<fee_map, sharing>>

\* fee_map.update_or_default(minimum_fees)
UpdateOrDefault ==
    \E minimum_fees \in {None} \cup {Some(m) : m \in Maps} :
        /\ fee_map # NoFeeMap
        /\ LET r == update_or_default(fee_map, minimum_fees)
           IN  /\ fee_map' = r.self
               /\ ret' = r.ret
        /\ op' = "update_or_default"
        /\ arg' = minimum_fees
        /\ UNCHANGED sharing

\* fee_map.get_fee_for_token(&token_id)
GetFeeForToken ==
    \E token_id \in TokenIds :
        /\ fee_map # NoFeeMap
        /\ op' = "get_fee_for_token"
        /\ arg' = token_id
        /\ ret' = get_fee_for_token(fee_map, token_id)
        /\ UNCHANGED <<fee_map, sharing>>

\* fee_map.iter().collect()
Iter ==
    /\ fee_map # NoFeeMap
    /\ op' = "iter"
    /\ arg' = None
    /\ ret' = iter(fee_map)
    /\ UNCHANGED <<fee_map, sharing>>

\* fee_map.responder_id(&id)
ResponderId ==
    \E id \in ResponderIds :
        /\ fee_map # NoFeeMap
        /\ op' = "responder_id"
        /\ arg' = id
        /\ ret' = responder_id(fee_map, id)
        /\ UNCHANGED <<fee_map, sharing>>

Next ==
    \/ Default
    \/ TryFrom
    \/ TryFromIter
    \/ IsValidMap
    \/ UpdateOrDefault
    \/ GetFeeForToken
    \/ Iter
    \/ ResponderId

Spec == Init /\ [][Next]_vars

\* ---------------------------------------------------------- shared FeeMap

\* A &self borrow granted whatever the lock says.
can_borrow_shared_unchecked(l) == TRUE

\* &self: shared access, granted while nobody holds exclusive access.
can_borrow_shared(l) == ~l.writer

\* &mut self: exclusive access, granted while nobody holds any access.
can_borrow_mut(l) == ~l.writer /\ l.readers = {}

\* A FeeMap::default() is shared between one writer and the readers.
InitShared ==
    /\ fee_map = FeeMap_default
    /\ op = "none"
    /\ arg = None
    /\ ret = Unit
    /\ NotShared

\* The writer calls fee_map.update_or_default(minimum_fees).
WriterCall ==
    \E minimum_fees \in {None} \cup {Some(m) : m \in Maps} :
        /\ writer.pc = "idle"
        /\ can_borrow_mut(lock)
        /\ lock' = [lock EXCEPT !.writer = TRUE]
        /\ writer' = [pc |-> "entered", minimum_fees |-> minimum_fees]
        /\ UNCHANGED <<fee_map, op, arg, ret, reader>>

\* if let Some(..) { is_valid_map(..)?; self.map = .. } else { self.map = .. }
WriterAssignMap ==
    /\ writer.pc = "entered"
    /\ IF writer.minimum_fees.tag = "Some"
       THEN LET valid == is_valid_map(writer.minimum_fees.val)
            IN  IF valid.tag # "Ok"
                THEN /\ writer' = [pc |-> "returning", ret |-> valid]
                     /\ UNCHANGED fee_map
                ELSE /\ fee_map' = [fee_map EXCEPT !.map = writer.minimum_fees.val]
                     /\ writer' = [pc |-> "map_assigned"]
       ELSE /\ fee_map' = [fee_map EXCEPT !.map = default_map]
            /\ writer' = [pc |-> "map_assigned"]
    /\ UNCHANGED <<op, arg, ret, lock, reader>>

\* self.cached_digest = calc_digest_for_map(&self.map);
WriterAssignDigest ==
    /\ writer.pc = "map_assigned"
    /\ fee_map' = [fee_map EXCEPT !.cached_digest = calc_digest_for_map(fee_map.map)]
    /\ writer' = [pc |-> "returning", ret |-> Ok(Unit)]
    /\ UNCHANGED <<op, arg, ret, lock, reader>>

\* update_or_default returns: the &mut borrow ends.
WriterReturn ==
    /\ writer.pc = "returning"
    /\ lock' = [lock EXCEPT !.writer = FALSE]
    /\ writer' = WriterIdle
    /\ UNCHANGED <<fee_map, op, arg, ret, reader>>

\* Reader r borrows the FeeMap through &self to read map and digest (clone).
ReaderBorrow(r) ==
    /\ reader[r].pc = "idle"
    /\ can_borrow_shared(lock)
    /\ lock' = [lock EXCEPT !.readers = @ \cup {r}]
    /\ reader' = [reader EXCEPT ![r] = [pc |-> "borrowed"]]
    /\ UNCHANGED <<fee_map, op, arg, ret, writer>>

\* Reader r reads the map.
ReaderReadMap(r) ==
    /\ reader[r].pc = "borrowed"
    /\ reader' = [reader EXCEPT ![r] = [pc |-> "map_read", map |-> fee_map.map]]
    /\ UNCHANGED <<fee_map, op, arg, ret, lock, writer>>

\* Reader r reads the cached digest.
ReaderReadDigest(r) ==
    /\ reader[r].pc = "map_read"
    /\ reader' = [reader EXCEPT ![r] =
                    [ pc |-> "both_read", map |-> reader[r].map,
                      cached_digest |-> fee_map.cached_digest ]]
    /\ UNCHANGED <<fee_map, op, arg, ret, lock, writer>>

\* Reader r is done: the & borrow ends.
ReaderRelease(r) ==
    /\ reader[r].pc = "both_read"
    /\ lock' = [lock EXCEPT !.readers = @ \ {r}]
    /\ reader' = [reader EXCEPT ![r] = ReaderIdle]
    /\ UNCHANGED <<fee_map, op, arg, ret, writer>>

NextShared ==
    \/ WriterCall
    \/ WriterAssignMap
    \/ WriterAssignDigest
    \/ WriterReturn
    \/ \E r \in Readers : ReaderBorrow(r)
    \/ \E r \in Readers : ReaderReadMap(r)
    \/ \E r \in Readers : ReaderReadDigest(r)
    \/ \E r \in Readers : ReaderRelease(r)

SpecShared == InitShared /\ [][NextShared]_vars

\* ------------------------------------------------------------------ claims

\* A FeeMap has been constructed.
Constructed == fee_map # NoFeeMap

\* The last call was update_or_default(Some(m)).
UpdatedWithSome == op = "update_or_default" /\ arg.tag = "Some"

\* All fees of the map are greater than 0.
AllFeesPositive(m) == \A t \in DOMAIN m : m[t] > 0

\* The token ids of the entries of m whose fee is zero.
ZeroFeeTokens(m) == {t \in DOMAIN m : m[t] = 0}

\* C1: in every state reached by a constructor and any sequence of
\* update_or_default calls, cached_digest is calc_digest_for_map of the map
\* that is stored.
C1_DigestNeverStale ==
    Constructed => fee_map.cached_digest = calc_digest_for_map(fee_map.map)

\* An update installed a map other than the default one, with its digest.
C1_Witness ==
    /\ UpdatedWithSome
    /\ ret = Ok(Unit)
    /\ fee_map.map = arg.val
    /\ fee_map.map # default_map

\* C2: in every reachable state every fee stored in the map is strictly
\* greater than zero, the default map included.
C2_FeesPositive ==
    Constructed => AllFeesPositive(fee_map.map)

\* The default map is installed and an update with a zero fee was rejected.
C2_Witness ==
    /\ UpdatedWithSome
    /\ ret.tag = "InvalidFee"
    /\ fee_map.map = default_map

\* C3: in every reachable state Mob::ID is a key of the map, so
\* get_fee_for_token(Mob::ID) is never None.
C3_MobPresent ==
    Constructed =>
        /\ Mob_ID \in DOMAIN fee_map.map
        /\ get_fee_for_token(fee_map, Mob_ID) # None

\* An update with a map that has no MOB entry was rejected.
C3_Witness ==
    /\ UpdatedWithSome
    /\ ret = MissingFee(Mob_ID)
    /\ DOMAIN arg.val # {}

\* C4: update_or_default(Some(m)) with an m that fails validation returns the
\* validation error and leaves map and cached_digest as they were.
C4_FailedUpdateChangesNothing ==
    [][ (op' = "update_or_default" /\ arg'.tag = "Some"
            /\ is_valid_map(arg'.val).tag # "Ok")
        => (ret' = is_valid_map(arg'.val) /\ fee_map' = fee_map) ]_vars

\* An update was rejected while a map other than the default one was stored.
C4_Witness ==
    /\ UpdatedWithSome
    /\ ret.tag \in {"InvalidFee", "MissingFee"}
    /\ fee_map.map # default_map
    /\ fee_map.map # arg.val

\* C5: update_or_default(None) succeeds from any state and leaves the FeeMap
\* equal to FeeMap::default(), map and cached digest.
C5_NoneResetsToDefault ==
    [][ (op' = "update_or_default" /\ arg' = None)
        => (ret' = Ok(Unit) /\ fee_map' = FeeMap_default) ]_vars

\* update_or_default(None) was called and the default FeeMap is stored.
C5_Witness ==
    /\ op = "update_or_default"
    /\ arg = None
    /\ fee_map = FeeMap_default

\* C6: after update_or_default(Some(m)) with a valid m, get_fee_for_token(t)
\* is m's entry for every token id t, and the cached digest differs from the
\* one before the call exactly when m differs from the map stored before.
C6_ValidUpdateVisible ==
    [][ (op' = "update_or_default" /\ arg'.tag = "Some"
            /\ is_valid_map(arg'.val).tag = "Ok")
        => /\ \A t \in TokenIds :
                get_fee_for_token(fee_map', t) =
                    IF t \in DOMAIN arg'.val THEN Some(arg'.val[t]) ELSE None
           /\ (fee_map'.cached_digest # fee_map.cached_digest)
                <=> (arg'.val # fee_map.map) ]_vars

\* A valid update installed a map with an entry besides MOB's.
C6_Witness ==
    /\ UpdatedWithSome
    /\ ret = Ok(Unit)
    /\ Cardinality(DOMAIN arg.val) > 1
    /\ \A t \in DOMAIN arg.val : get_fee_for_token(fee_map, t) = Some(arg.val[t])

\* C7: for a map in which some fee is zero, is_valid_map returns
\* InvalidFee(t, 0) with t the smallest token id whose fee is zero.
C7_FirstZeroFeeReported ==
    (op = "is_valid_map" /\ ZeroFeeTokens(arg) # {})
        => ret = InvalidFee(Min(ZeroFeeTokens(arg)), 0)

\* is_valid_map was given a map with more than one zero fee.
C7_Witness ==
    /\ op = "is_valid_map"
    /\ Cardinality(ZeroFeeTokens(arg)) > 1
    /\ ret.tag = "InvalidFee"

\* C8 as stated: for every map from which Mob::ID is absent, is_valid_map
\* returns MissingFee(Mob::ID).
C8_MissingMobAlwaysMissingFee ==
    (op = "is_valid_map" /\ Mob_ID \notin DOMAIN arg)
        => ret = MissingFee(Mob_ID)

\* C8: for every map from which Mob::ID is absent and in which no fee is
\* zero, is_valid_map returns MissingFee(Mob::ID).
C8_MissingMobNoZeroFee ==
    (op = "is_valid_map" /\ Mob_ID \notin DOMAIN arg /\ ZeroFeeTokens(arg) = {})
        => ret = MissingFee(Mob_ID)

\* is_valid_map was given a non-empty map of positive fees without MOB.
C8_Witness ==
    /\ op = "is_valid_map"
    /\ Mob_ID \notin DOMAIN arg
    /\ DOMAIN arg # {}
    /\ ZeroFeeTokens(arg) = {}
    /\ ret = MissingFee(Mob_ID)

\* C9: is_valid_map returns Ok exactly when all fees are greater than zero
\* and Mob::ID is a key, otherwise one of InvalidFee and MissingFee, and the
\* call changes no FeeMap.
C9_IsValidMapTotalAndPure ==
    [][ op' = "is_valid_map"
        => /\ ret' = Ok(Unit) <=> (AllFeesPositive(arg') /\ Mob_ID \in DOMAIN arg')
           /\ ret'.tag \in {"Ok", "InvalidFee", "MissingFee"}
           /\ ret'.tag = "InvalidFee" => ~AllFeesPositive(arg')
           /\ ret'.tag = "MissingFee" => Mob_ID \notin DOMAIN arg'
           /\ fee_map' = fee_map ]_vars

\* is_valid_map rejected a map while a FeeMap was held.
C9_Witness ==
    /\ op = "is_valid_map"
    /\ Constructed
    /\ ret.tag = "InvalidFee"
    /\ Mob_ID \in DOMAIN arg

\* C10: try_from(m) and update_or_default(Some(m)) return Err(e) exactly when
\* is_valid_map(m) returns Err(e), and when is_valid_map(m) is Ok, try_from(m)
\* returns a FeeMap whose map is m and whose cached digest is the digest of m.
C10_TryFromAgreesWithIsValidMap ==
    /\ op = "try_from" =>
          ret = IF is_valid_map(arg).tag = "Ok"
                THEN Ok(FeeMap(arg, calc_digest_for_map(arg)))
                ELSE is_valid_map(arg)
    /\ UpdatedWithSome => ret = is_valid_map(arg.val)

\* try_from built a FeeMap from a valid map of more than one entry.
C10_Witness ==
    /\ op = "try_from"
    /\ ret.tag = "Ok"
    /\ ret.val.map = arg
    /\ Cardinality(DOMAIN arg) > 1

\* The maps that pass is_valid_map.
ValidMaps == {m \in Maps : is_valid_map(m) = Ok(Unit)}

\* The FeeMaps try_from builds from the valid maps.
BuiltFeeMaps == {try_from(m).val : m \in ValidMaps}

\* C11: for valid maps M1 # M2 and a fixed base responder id B,
\* responder_id(B) on the FeeMap built from M1 differs from responder_id(B)
\* on the FeeMap built from M2.
C11_DifferentMapsDifferentIds ==
    op = "responder_id" =>
        \A fee_map2 \in BuiltFeeMaps :
            fee_map2.map # fee_map.map => responder_id(fee_map2, arg) # ret

\* responder_id was called with a non-empty base on a FeeMap of two entries.
C11_Witness ==
    /\ op = "responder_id"
    /\ Len(arg) > 0
    /\ Cardinality(DOMAIN fee_map.map) > 1

\* The pairs of the iterator have distinct token ids.
DistinctKeys(it) ==
    \A i, j \in DOMAIN it : i # j => it[i][1] # it[j][1]

\* it2 supplies the pairs of it1 in some order (both with distinct keys).
Permuted(it1, it2) ==
    /\ DistinctKeys(it1)
    /\ DistinctKeys(it2)
    /\ Len(it1) = Len(it2)
    /\ {it1[i] : i \in DOMAIN it1} = {it2[i] : i \in DOMAIN it2}

\* C12: FeeMaps built by try_from_iter from pair sequences that are
\* permutations of each other are equal, cached digest included, and changing
\* any single fee of the map changes the digest.
C12_DigestOfContentOnly ==
    (op = "try_from_iter" /\ ret.tag = "Ok") =>
        /\ \A it2 \in Iters : Permuted(arg, it2) => try_from_iter(it2) = ret
        /\ \A t \in DOMAIN ret.val.map :
             \A fee \in Fees \ {ret.val.map[t]} :
                calc_digest_for_map([ret.val.map EXCEPT ![t] = fee])
                    # ret.val.cached_digest

\* try_from_iter built a FeeMap from two pairs supplied in descending order.
C12_Witness ==
    /\ op = "try_from_iter"
    /\ ret.tag = "Ok"
    /\ Len(arg) = 2
    /\ arg[1][1] > arg[2][1]

Max(S) == CHOOSE x \in S : \A y \in S : x >= y

\* The map that gives each token id of the pairs the fee of its last occurrence.
LastWrite(it) ==
    [t \in {it[i][1] : i \in DOMAIN it} |->
        it[Max({i \in DOMAIN it : it[i][1] = t})][2]]

\* C13: try_from_iter resolves each token id to the fee of its last
\* occurrence before it validates: validity and the resulting map depend
\* only on the last-written fee of each id.
C13_LastWriteWins ==
    op = "try_from_iter" =>
        /\ ret.tag = "Ok" => ret.val.map = LastWrite(arg)
        /\ ret.tag = "Ok" <=>
              (AllFeesPositive(LastWrite(arg)) /\ Mob_ID \in DOMAIN LastWrite(arg))
        /\ ret.tag = "InvalidFee" <=> ZeroFeeTokens(LastWrite(arg)) # {}

\* A zero fee for MOB was overridden by a later non-zero fee for MOB.
C13_Witness ==
    /\ op = "try_from_iter"
    /\ Len(arg) = 2
    /\ arg[1] = <<Mob_ID, 0>>
    /\ arg[2][1] = Mob_ID
    /\ ret.tag = "Ok"

\* C14: while update_or_default runs under exclusive access and readers
\* under shared access, no reader observes a map together with a cached
\* digest of another generation of the map, although the writer assigns
\* the two in separate steps.
C14_ReadersSeeOneGeneration ==
    \A r \in Readers :
        reader[r].pc = "both_read"
            => reader[r].cached_digest = calc_digest_for_map(reader[r].map)

\* Two readers at once hold a map and a digest that an update installed.
C14_Witness ==
    /\ \A r \in {1, NumReaders} : reader[r].pc = "both_read"
    /\ reader[1].map # default_map

\* Between the writer's two assignments the stored digest is stale.
C14_StaleInside ==
    /\ writer.pc = "map_assigned"
    /\ fee_map.cached_digest # calc_digest_for_map(fee_map.map)

\* C15: FeeMap::default() contains exactly one entry, Mob::ID with
\* Mob::MINIMUM_FEE, and that map passes is_valid_map.
C15_DefaultIsMobOnly ==
    op = "default" =>
        /\ DOMAIN ret.map = {Mob_ID}
        /\ Cardinality(DOMAIN ret.map) = 1
        /\ ret.map[Mob_ID] = Mob_MINIMUM_FEE
        /\ iter(ret) = <<<<Mob_ID, Mob_MINIMUM_FEE>>>>
        /\ is_valid_map(ret.map) = Ok(Unit)

\* FeeMap::default() was called and its result is the FeeMap held.
C15_Witness ==
    /\ op = "default"
    /\ fee_map = ret
    /\ get_fee_for_token(fee_map, Mob_ID) = Some(Mob_MINIMUM_FEE)

\* C16: responder_id(B) is B, a single '-' and the cached digest, in that
\* order, and distinct base responder ids give distinct results on one FeeMap.
C16_BaseSeparatorDigest ==
    op = "responder_id" =>
        /\ Len(ret) = Len(arg) + 1 + Len(fee_map.cached_digest)
        /\ SubSeq(ret, 1, Len(arg)) = arg
        /\ ret[Len(arg) + 1] = "-"
        /\ SubSeq(ret, Len(arg) + 2, Len(ret)) = fee_map.cached_digest
        /\ \A id2 \in ResponderIds : id2 # arg => responder_id(fee_map, id2) # ret

\* responder_id was called with a base of MaxIdLen characters, a '-' among them.
C16_Witness ==
    /\ op = "responder_id"
    /\ Len(arg) = MaxIdLen
    /\ \E i \in DOMAIN arg : arg[i] = "-"

\* C17: get_fee_for_token, iter and responder_id leave map and cached digest
\* unchanged; get_fee_for_token(t) is Some(fee) exactly when (t, fee) is an
\* entry of the map; iter yields every entry once, in strictly ascending
\* token-id order (so that every restart yields the same sequence).
C17_ReadsAreReads ==
    [][ op' \in {"get_fee_for_token", "iter", "responder_id"}
        => /\ fee_map' = fee_map
           /\ op' = "get_fee_for_token" =>
                /\ ret'.tag \in {"Some", "None"}
                /\ ret'.tag = "Some" <=> arg' \in DOMAIN fee_map.map
                /\ ret'.tag = "Some" => ret'.val = fee_map.map[arg']
           /\ op' = "iter" =>
                /\ Len(ret') = Cardinality(DOMAIN fee_map.map)
                /\ {ret'[i] : i \in DOMAIN ret'}
                     = {<<t, fee_map.map[t]>> : t \in DOMAIN fee_map.map}
                /\ \A i, j \in DOMAIN ret' : i < j => ret'[i][1] < ret'[j][1] ]_vars

\* iter walked a map of more than one entry.
C17_Witness ==
    /\ op = "iter"
    /\ Len(ret) > 1
    /\ ret[1][1] = Mob_ID

\* C18: every update_or_default call that succeeds leaves the FeeMap that its
\* argument alone determines (try_from(m) for Some(m), FeeMap::default() for
\* None), and every call that fails leaves the FeeMap it found: the state
\* after a sequence of calls is that of the last call that succeeded.
C18_LastSuccessDecides ==
    [][ op' = "update_or_default"
        => fee_map' = IF ret'.tag # "Ok" THEN fee_map
                      ELSE IF arg' = None THEN FeeMap_default
                      ELSE try_from(arg'.val).val ]_vars

\* An update to a single-entry map other than the default one succeeded.
C18_Witness ==
    /\ UpdatedWithSome
    /\ ret = Ok(Unit)
    /\ DOMAIN arg.val = {Mob_ID}
    /\ fee_map = try_from(arg.val).val
    /\ fee_map # FeeMap_default

\* C19: the transcript of the stored map is the "fee_map" label, a sequence
\* header of twice the number of entries, then for each entry in ascending
\* token-id order the token id and its fee; the number of elements appended
\* after the header is the header's value.
C19_TranscriptShape ==
    Constructed =>
        LET map == fee_map.map
            n == Cardinality(DOMAIN map)
            transcript == fee_map_transcript(map)
            appended == transcript.appended
        IN  /\ transcript.context = "fee_map"
            /\ appended[1] = <<"seq", "fee_map", 2 * n>>
            /\ Len(appended) - 1 = appended[1][3]
            /\ \A i \in 1 .. n :
                 /\ appended[2 * i][1] = "prim"
                 /\ appended[2 * i][2] = "token_id"
                 /\ appended[2 * i][3] \in DOMAIN map
                 /\ appended[2 * i + 1] = <<"prim", "fee", map[appended[2 * i][3]]>>
            /\ \A i, j \in 1 .. n : i < j => appended[2 * i][3] < appended[2 * j][3]
            /\ fee_map.cached_digest = hex_encode(extract_digest(transcript))

\* A map of more than one entry is stored and digested.
C19_Witness ==
    /\ Constructed
    /\ Cardinality(DOMAIN fee_map.map) > 1
    /\ Len(fee_map_transcript(fee_map.map).appended) > 3

\* C20: the cached digest is the hex of DIGEST_LEN bytes, two characters for
\* each, and responder_id results on FeeMaps M1, M2 with bases B1, B2 (which
\* may contain '-') are equal only if B1 = B2 and the digests are equal.
C20_JointlyInjective ==
    op = "responder_id" =>
        /\ Len(fee_map.cached_digest) = 2 * DIGEST_LEN
        /\ \A fee_map2 \in BuiltFeeMaps :
             \A id2 \in ResponderIds :
                responder_id(fee_map2, id2) = ret
                    => (id2 = arg /\ fee_map2.cached_digest = fee_map.cached_digest)

\* responder_id was called with a base that starts with a hex digit and a '-'.
C20_Witness ==
    /\ op = "responder_id"
    /\ Len(arg) > 1
    /\ arg[1] = "a"
    /\ arg[2] = "-"

====
